---- MODULE Spec2Model ----
(***************************************************************************)
(* A model of the separate-chaining hash set of src/hashset/src/hashset.rs *)
(* and of its iterator, src/hashset/src/iter.rs.                           *)
(*                                                                         *)
(* A table is the record [buckets, size] of the struct HashSet<T>:         *)
(* buckets is the Vec<Vec<T>> (a function from 0..capacity-1 to sequences, *)
(* a Vec being indexed from 0), size the usize counter.  The elements are  *)
(* the i32 values 0..MaxVal the repository's tests insert.                 *)
(***************************************************************************)
EXTENDS Integers, Sequences, FiniteSets

\* The client inserts, removes and looks up the values 0..MaxVal.
MaxVal == 24

\* The client works upwards through the values, as the loops of the tests do
\* (for i in 0..20), and goes back to remove, re-insert and look up the recent
\* ones: every call is on a value at most Window below the largest value in
\* the table and at most Window above the smallest value missing from it.
Window == 2

\* After a clone the client goes on with one of the two tables and keeps the
\* other; it inserts and removes as long as the two differ in at most MaxApart
\* values.
MaxApart == 1

Values == 0..MaxVal

\* HashSet::new builds 16 buckets.
InitialCapacity == 16

VARIABLES
    buckets,    \* HashSet::buckets of the table under test
    size,       \* HashSet::size of the table under test
    cursor,     \* the Iter borrowed from the table, NoIter when there is none
    out,        \* the items the Iter has yielded so far, in order
    call,       \* the last call made: [op, arg, ret, twice], twice when it
                \* repeats the call before it, which returned true
    live,       \* the values inserted and not removed or cleared since
    copy        \* the table cloned from the table under test, NoCopy when
                \* there is none: [made, t, live, snap], t the clone, live its
                \* values, snap the table under test as it was cloned

vars == <<buckets, size, cursor, out, call, live, copy>>

\* The arg of a call that takes no value, and the item of a next that is None.
NoArg == MaxVal + 1

----------------------------------------------------------------------------
(* Hashing *)

\* DefaultHasher::new() is SipHash-1-3 under the key (0, 0), and an i32 is
\* written to it as its four little-endian bytes.  HashBits[v + 1] is
\* hasher.finish() mod 2^16 for the value v, which decides
\* finish() mod capacity for every capacity that is a power of two up to 2^16.
HashBits ==
    << 35568, 28816, 64145, 51742, 23588,   111, 62371, 12266,
       60615, 46463, 47271, 19757, 54825, 41281, 55209, 40969,
       55652,  8556,   664, 22140,  2216, 53606, 22586, 31249,
       62199, 58053, 50401, 18901, 52831, 18965, 40291, 61381 >>

finish(value) == HashBits[value + 1]

\* buckets.len()
capacity(t) == Cardinality(DOMAIN t.buckets)

\* (hasher.finish() as usize) % self.buckets.len()
hash(t, value) == finish(value) % capacity(t)

----------------------------------------------------------------------------
(* The table's operations, as functions of the table *)

create_buckets(n) == [i \in 0..(n - 1) |-> <<>>]

new == [buckets |-> create_buckets(InitialCapacity), size |-> 0]

\* bucket.iter().any(|v| v == value)
any(bucket, value) == \E i \in 1..Len(bucket) : bucket[i] = value

\* bucket.iter().position(|v| v == value): the first match, 0 for None
position(bucket, value) ==
    IF any(bucket, value)
    THEN CHOOSE i \in 1..Len(bucket) :
            /\ bucket[i] = value
            /\ \A j \in 1..(i - 1) : bucket[j] # value
    ELSE 0

\* Vec::swap_remove(pos) in the place of Vec::remove(pos): the last element
\* takes the place of the removed one.
vec_swap_remove(bucket, pos) ==
    [i \in 1..(Len(bucket) - 1) |-> IF i = pos THEN bucket[Len(bucket)] ELSE bucket[i]]

\* Vec::truncate(pos - 1) in the place of Vec::remove(pos): the elements from
\* pos on are dropped.
vec_truncate(bucket, pos) == [i \in 1..(pos - 1) |-> bucket[i]]

\* Vec::remove(pos): the elements after pos shift down by one
vec_remove(bucket, pos) ==
    [i \in 1..(Len(bucket) - 1) |-> IF i < pos THEN bucket[i] ELSE bucket[i + 1]]

\* The inner loop of resize: every value of one old bucket, in order, is
\* pushed on the new bucket its hash selects under new_capacity.
RECURSIVE rehash_bucket(_, _, _, _)
rehash_bucket(new_buckets, bucket, k, new_capacity) ==
    IF k > Len(bucket) THEN new_buckets
    ELSE LET new_index == finish(bucket[k]) % new_capacity
         IN  rehash_bucket(
                 [new_buckets EXCEPT ![new_index] = Append(@, bucket[k])],
                 bucket, k + 1, new_capacity)

\* The outer loop of resize: the old buckets in index order.
RECURSIVE rehash(_, _, _, _)
rehash(new_buckets, old_buckets, b, new_capacity) ==
    IF b >= Cardinality(DOMAIN old_buckets) THEN new_buckets
    ELSE rehash(rehash_bucket(new_buckets, old_buckets[b], 1, new_capacity),
                old_buckets, b + 1, new_capacity)

\* resize, had it added the initial capacity instead of doubling.
resize_adds_initial(t) ==
    LET new_capacity == capacity(t) + InitialCapacity
        new_buckets  == create_buckets(new_capacity)
    IN  [t EXCEPT !.buckets = rehash(new_buckets, t.buckets, 0, new_capacity)]

\* resize, had it doubled the bucket array and left every value at its old index.
resize_keeps_index(t) ==
    LET new_capacity == capacity(t) * 2
    IN  [t EXCEPT !.buckets =
            [i \in 0..(new_capacity - 1) |->
                IF i < capacity(t) THEN t.buckets[i] ELSE <<>>]]

resize(t) ==
    LET new_capacity == capacity(t) * 2
        new_buckets  == create_buckets(new_capacity)
    IN  [t EXCEPT !.buckets = rehash(new_buckets, t.buckets, 0, new_capacity)]

\* The growth check, had it left out the value about to be inserted.
must_grow_without_new(t) == t.size * 4 > capacity(t) * 3

\* The growth check, had it used >= for >.
must_grow_at_threshold(t) == (t.size + 1) * 4 >= capacity(t) * 3

\* The growth check insert makes before it looks at anything else.
must_grow(t) == (t.size + 1) * 4 > capacity(t) * 3

\* insert, had it computed the index before the growth check.
insert_index_before_growth(t, value) ==
    LET index  == hash(t, value)
        t1     == IF must_grow(t) THEN resize(t) ELSE t
        bucket == t1.buckets[index]
    IN  IF any(bucket, value)
        THEN [t |-> t1, ret |-> FALSE]
        ELSE [t   |-> [buckets |-> [t1.buckets EXCEPT ![index] = Append(@, value)],
                       size    |-> t1.size + 1],
              ret |-> TRUE]

\* insert, had it put the value at the head of its bucket.
insert_at_head(t, value) ==
    LET t1     == IF must_grow(t) THEN resize(t) ELSE t
        index  == hash(t1, value)
        bucket == t1.buckets[index]
    IN  IF any(bucket, value)
        THEN [t |-> t1, ret |-> FALSE]
        ELSE [t   |-> [buckets |-> [t1.buckets EXCEPT ![index] = <<value>> \o @],
                       size    |-> t1.size + 1],
              ret |-> TRUE]

\* insert, had it pushed the value without looking for it in the bucket.
insert_push_always(t, value) ==
    LET t1    == IF must_grow(t) THEN resize(t) ELSE t
        index == hash(t1, value)
    IN  [t   |-> [buckets |-> [t1.buckets EXCEPT ![index] = Append(@, value)],
                   size    |-> t1.size + 1],
         ret |-> TRUE]

\* insert, had it counted the value before looking for it in the bucket.
insert_counts_first(t, value) ==
    LET t1     == IF must_grow(t) THEN resize(t) ELSE t
        index  == hash(t1, value)
        bucket == t1.buckets[index]
    IN  IF any(bucket, value)
        THEN [t |-> [t1 EXCEPT !.size = @ + 1], ret |-> FALSE]
        ELSE [t   |-> [buckets |-> [t1.buckets EXCEPT ![index] = Append(@, value)],
                       size    |-> t1.size + 1],
              ret |-> TRUE]

\* insert returns the table it leaves and the bool it returns.
insert(t, value) ==
    LET t1     == IF must_grow(t) THEN resize(t) ELSE t
        index  == hash(t1, value)
        bucket == t1.buckets[index]
    IN  IF any(bucket, value)
        THEN [t |-> t1, ret |-> FALSE]
        ELSE [t   |-> [buckets |-> [t1.buckets EXCEPT ![index] = Append(@, value)],
                       size    |-> t1.size + 1],
              ret |-> TRUE]

\* Default for HashSet: Self::new()
default == new

\* FromIterator::from_iter: the items are inserted one by one into a new table.
RECURSIVE from_iter_loop(_, _, _)
from_iter_loop(set, items, k) ==
    IF k > Len(items) THEN set
    ELSE from_iter_loop(insert(set, items[k]).t, items, k + 1)

from_iter(items) == from_iter_loop(new, items, 1)

\* contains, had it compared the head of the bucket only.
contains_head_only(t, value) ==
    LET bucket == t.buckets[hash(t, value)]
    IN  Len(bucket) > 0 /\ bucket[1] = value

contains(t, value) == any(t.buckets[hash(t, value)], value)

\* remove, had it left size alone.
remove_keeps_size(t, value) ==
    LET index  == hash(t, value)
        bucket == t.buckets[index]
        pos    == position(bucket, value)
    IN  IF pos # 0
        THEN [t   |-> [t EXCEPT !.buckets[index] = vec_remove(bucket, pos)],
              ret |-> TRUE]
        ELSE [t |-> t, ret |-> FALSE]

\* remove, had it decremented size before looking for the value.
remove_counts_first(t, value) ==
    LET index  == hash(t, value)
        bucket == t.buckets[index]
        pos    == position(bucket, value)
    IN  IF pos # 0
        THEN [t   |-> [buckets |-> [t.buckets EXCEPT ![index] = vec_remove(bucket, pos)],
                       size    |-> t.size - 1],
              ret |-> TRUE]
        ELSE [t |-> [t EXCEPT !.size = @ - 1], ret |-> FALSE]

remove(t, value) ==
    LET index  == hash(t, value)
        bucket == t.buckets[index]
        pos    == position(bucket, value)
    IN  IF pos # 0
        THEN [t   |-> [buckets |-> [t.buckets EXCEPT ![index] = vec_remove(bucket, pos)],
                       size    |-> t.size - 1],
              ret |-> TRUE]
        ELSE [t |-> t, ret |-> FALSE]

len(t) == t.size

is_empty(t) == t.size = 0

\* clear, had it rebuilt the table as new does.
clear_to_new(t) == new

clear(t) == [buckets |-> [i \in DOMAIN t.buckets |-> <<>>], size |-> 0]

\* clone, had it built the buckets anew and copied size.
clone_empty_buckets(t) ==
    [buckets |-> create_buckets(capacity(t)), size |-> t.size]

\* Clone for HashSet: self.buckets.clone() copies the outer Vec and every
\* bucket, so the clone owns its own buckets.
clone(t) ==
    [buckets |-> [b \in DOMAIN t.buckets |-> t.buckets[b]], size |-> t.size]

----------------------------------------------------------------------------
(* The iterator of iter.rs, as functions of the table it borrows *)

\* Iter::current_bucket = None
NoBucket == [some |-> FALSE, b |-> 0, k |-> 0]

\* iter, had it advanced bucket_iter without keeping the bucket it returned.
iter_drops_first(t) ==
    [next |-> IF capacity(t) > 0 THEN 1 ELSE 0, current_bucket |-> NoBucket]

\* bucket_iter is the slice iterator over the buckets: next is the index of
\* the bucket it yields next.  current_bucket is None or the slice iterator
\* over bucket b, k being the position in it of the item it yields next.
iter(t) ==
    IF capacity(t) > 0
    THEN [next |-> 1, current_bucket |-> [some |-> TRUE, b |-> 0, k |-> 1]]
    ELSE [next |-> 0, current_bucket |-> NoBucket]

\* The loop of next_restarts below.
RECURSIVE next_restarts_loop(_, _, _, _)
next_restarts_loop(t, bucket_iter, cur, turns) ==
    IF cur.some /\ cur.k <= Len(t.buckets[cur.b])
    THEN [it    |-> [next |-> bucket_iter,
                     current_bucket |-> [cur EXCEPT !.k = cur.k + 1]],
          some  |-> TRUE,
          item  |-> t.buckets[cur.b][cur.k],
          turns |-> turns]
    ELSE IF bucket_iter < capacity(t)
    THEN next_restarts_loop(t, bucket_iter + 1,
             [some |-> TRUE, b |-> bucket_iter, k |-> 1], turns + 1)
    ELSE [it    |-> iter(t),
          some  |-> FALSE,
          item  |-> NoArg,
          turns |-> turns]

\* Iter::next, had it started over at the first bucket when bucket_iter is
\* used up.
next_restarts(t, it) == next_restarts_loop(t, it.next, it.current_bucket, 1)

\* The loop of Iter::next, in its turn number turns, bucket_iter being the
\* index of the bucket that bucket_iter yields next and cur the current
\* bucket: it returns the iterator it leaves, whether it returned Some, the
\* item, and the number of turns it took.  Each unfolding is one turn of the
\* loop.
RECURSIVE next_loop(_, _, _, _)
next_loop(t, bucket_iter, cur, turns) ==
    IF cur.some /\ cur.k <= Len(t.buckets[cur.b])
    THEN [it    |-> [next |-> bucket_iter,
                     current_bucket |-> [cur EXCEPT !.k = cur.k + 1]],
          some  |-> TRUE,
          item  |-> t.buckets[cur.b][cur.k],
          turns |-> turns]
    ELSE IF bucket_iter < capacity(t)
    THEN next_loop(t, bucket_iter + 1,
             [some |-> TRUE, b |-> bucket_iter, k |-> 1], turns + 1)
    ELSE [it    |-> [next |-> bucket_iter, current_bucket |-> cur],
          some  |-> FALSE,
          item  |-> NoArg,
          turns |-> turns]

\* Iter::next
next(t, it) == next_loop(t, it.next, it.current_bucket, 1)

----------------------------------------------------------------------------
(* The table under test and its client *)

Self == [buckets |-> buckets, size |-> size]

\* The values a table stores, over all its buckets.
Stored(t) ==
    UNION {{t.buckets[b][i] : i \in 1..Len(t.buckets[b])} : b \in DOMAIN t.buckets}

\* The number of items in the buckets of a table from bucket b on.
RECURSIVE Held(_, _)
Held(t, b) ==
    IF b >= capacity(t) THEN 0 ELSE Len(t.buckets[b]) + Held(t, b + 1)

\* The items of a table from bucket b on: bucket after bucket, each in the
\* order of its Vec.
RECURSIVE Items(_, _)
Items(t, b) ==
    IF b >= capacity(t) THEN <<>> ELSE t.buckets[b] \o Items(t, b + 1)

\* The largest value of s, -1 when s is empty.
Top(s) == IF s = {} THEN -1 ELSE CHOOSE v \in s : \A w \in s : w <= v

\* The smallest value that is not in s.
Low(s) == CHOOSE v \in 0..(MaxVal + 1) : v \notin s /\ \A w \in 0..(v - 1) : w \in s

\* The values the client calls the table on next.
Near(s) ==
    LET top == Top(s)
        low == Low(s)
    IN  {v \in Values : top - Window <= v /\ v <= low + Window}

\* The call about to be made repeats the last one, which returned true.
Repeats(op, value) == call.op = op /\ call.arg = value /\ call.ret

NoIter == [next |-> -1, current_bucket |-> NoBucket]

NoCopy == [made |-> FALSE, t |-> new, live |-> {}, snap |-> new]

Init ==
    /\ buckets = new.buckets
    /\ size = new.size
    /\ cursor = NoIter
    /\ out = <<>>
    /\ call = [op |-> "new", arg |-> NoArg, ret |-> FALSE, twice |-> FALSE]
    /\ live = {}
    /\ copy = NoCopy

\* A call that is not the iterator's ends the borrow of the iterator.
EndBorrow ==
    /\ cursor' = NoIter
    /\ out' = <<>>

Insert(value) ==
    LET r == insert(Self, value)
    IN  /\ buckets' = r.t.buckets
        /\ size' = r.t.size
        /\ call' = [op |-> "insert", arg |-> value, ret |-> r.ret,
                    twice |-> Repeats("insert", value)]
        /\ live' = live \cup {value}
        /\ EndBorrow
        /\ UNCHANGED copy

Remove(value) ==
    LET r == remove(Self, value)
    IN  /\ buckets' = r.t.buckets
        /\ size' = r.t.size
        /\ call' = [op |-> "remove", arg |-> value, ret |-> r.ret,
                    twice |-> Repeats("remove", value)]
        /\ live' = live \ {value}
        /\ EndBorrow
        /\ UNCHANGED copy

Contains(value) ==
    /\ call' = [op |-> "contains", arg |-> value, ret |-> contains(Self, value),
                twice |-> FALSE]
    /\ UNCHANGED <<buckets, size, live, copy>>
    /\ EndBorrow

Clear ==
    LET t == clear(Self)
    IN  /\ buckets' = t.buckets
        /\ size' = t.size
        /\ call' = [op |-> "clear", arg |-> NoArg, ret |-> FALSE, twice |-> FALSE]
        /\ live' = {}
        /\ EndBorrow
        /\ UNCHANGED copy

\* let it = set.iter()
IterNew ==
    /\ cursor' = iter(Self)
    /\ out' = <<>>
    /\ call' = [op |-> "iter", arg |-> NoArg, ret |-> FALSE, twice |-> FALSE]
    /\ UNCHANGED <<buckets, size, live, copy>>

\* it.next()
IterNext ==
    /\ cursor # NoIter
    /\ LET r == next(Self, cursor)
       IN  /\ cursor' = r.it
           /\ out' = IF r.some THEN Append(out, r.item) ELSE out
           /\ call' = [op |-> "next", arg |-> NoArg, ret |-> r.some, twice |-> FALSE]
    /\ UNCHANGED <<buckets, size, live, copy>>

Next ==
    \/ \E value \in Near(live) : Insert(value)
    \/ \E value \in Near(live) : Remove(value)
    \/ \E value \in Near(live) : Contains(value)
    \/ Clear
    \/ IterNew
    \/ IterNext

Spec == Init /\ [][Next]_vars

\* The client of from_iter and of the insert loops: inserts only.
NextInsert == \E value \in Near(live) : Insert(value)

SpecInsert == Init /\ [][NextInsert]_vars

\* The client that only changes the table.
NextTable ==
    \/ \E value \in Near(live) : Insert(value)
    \/ \E value \in Near(live) : Remove(value)
    \/ Clear

SpecTable == Init /\ [][NextTable]_vars

\* The client that changes the table and traverses it.
NextIter ==
    \/ \E value \in Near(live) : Insert(value)
    \/ \E value \in Near(live) : Remove(value)
    \/ Clear
    \/ IterNew
    \/ IterNext

SpecIter == Init /\ [][NextIter]_vars

\* next has returned None on the iterator at hand.
Ended == cursor # NoIter /\ call.op = "next" /\ ~call.ret

\* The client of collect() and of the for loop: it changes the table, takes
\* an iterator and calls next on it until next returns None; it may call
\* next again after that.
NextTraverse ==
    \/ /\ cursor = NoIter \/ Ended
       /\ \/ \E value \in Near(live) : Insert(value)
          \/ \E value \in Near(live) : Remove(value)
          \/ Clear
          \/ IterNew
    \/ IterNext

\* The loop that drives the iterator goes on while next returns Some.
SpecTraverse == Init /\ [][NextTraverse]_vars /\ WF_vars(IterNext)

\* The number of values in one of a and b and not in the other.
Apart(a, b) == Cardinality((a \ b) \cup (b \ a))

\* let copy = set.clone()
Clone ==
    /\ ~copy.made
    /\ copy' = [made |-> TRUE, t |-> clone(Self), live |-> live, snap |-> Self]
    /\ call' = [op |-> "clone", arg |-> NoArg, ret |-> FALSE, twice |-> FALSE]
    /\ UNCHANGED <<buckets, size, live>>
    /\ EndBorrow

\* copy.insert(value)
CopyInsert(value) ==
    LET r == insert(copy.t, value)
    IN  /\ copy' = [copy EXCEPT !.t = r.t, !.live = @ \cup {value}]
        /\ call' = [op |-> "copy.insert", arg |-> value, ret |-> r.ret,
                    twice |-> Repeats("copy.insert", value)]
        /\ UNCHANGED <<buckets, size, live, cursor, out>>

\* copy.remove(&value)
CopyRemove(value) ==
    LET r == remove(copy.t, value)
    IN  /\ copy' = [copy EXCEPT !.t = r.t, !.live = @ \ {value}]
        /\ call' = [op |-> "copy.remove", arg |-> value, ret |-> r.ret,
                    twice |-> Repeats("copy.remove", value)]
        /\ UNCHANGED <<buckets, size, live, cursor, out>>

\* copy.clear()
CopyClear ==
    /\ copy' = [copy EXCEPT !.t = clear(copy.t), !.live = {}]
    /\ call' = [op |-> "copy.clear", arg |-> NoArg, ret |-> FALSE, twice |-> FALSE]
    /\ UNCHANGED <<buckets, size, live, cursor, out>>

\* The client of clone: it fills a table as test_resize does (for i in 0..n),
\* clones it, and goes on with the table or with the clone.
NextClone ==
    \/ /\ ~copy.made
       /\ \E value \in Values \cap {Low(live)} : Insert(value)
    \/ Clone
    \/ /\ copy.made /\ copy.t = copy.snap
       /\ \/ \E value \in Near(live) :
                /\ Apart(live \cup {value}, copy.live) <= MaxApart
                /\ Insert(value)
          \/ \E value \in Near(live) :
                /\ Apart(live \ {value}, copy.live) <= MaxApart
                /\ Remove(value)
          \/ Clear
    \/ /\ copy.made /\ Self = copy.snap
       /\ \/ \E value \in Near(copy.live) :
                /\ Apart(live, copy.live \cup {value}) <= MaxApart
                /\ CopyInsert(value)
          \/ \E value \in Near(copy.live) :
                /\ Apart(live, copy.live \ {value}) <= MaxApart
                /\ CopyRemove(value)
          \/ CopyClear

SpecClone == Init /\ [][NextClone]_vars

----------------------------------------------------------------------------
(* What the table's clients can rely on *)

\* How often value occurs in the sequence items.
Count(items, value) == Cardinality({i \in 1..Len(items) : items[i] = value})

\* The table of test_from_iterator: vec![1, 2, 2, 3].into_iter().collect()
TestFromIterator == from_iter(<<1, 2, 2, 3>>)

\* The table of test_resize: for i in 0..20 { set.insert(i) }
TestResize == from_iter([i \in 1..20 |-> i - 1])

\* C1: after any sequence of insert calls on a new table, len() is the number
\* of distinct values inserted, however many of the calls were duplicates and
\* however often the table grew; the table collected from [1, 2, 2, 3] has
\* len() 3 and contains 1, 2 and 3.
C1_LenCountsDistinct ==
    /\ len(Self) = Cardinality(live)
    /\ len(TestFromIterator) = 3
    /\ \A x \in {1, 2, 3} : contains(TestFromIterator, x)

\* C1 happens: a duplicate insert has just returned false on a table that has
\* grown twice.
C1_Witness ==
    /\ call.op = "insert" /\ ~call.ret
    /\ capacity(Self) = 4 * InitialCapacity
    /\ 2 * len(Self) > 3 * InitialCapacity

\* C2: contains(x) is true exactly for the values inserted and not removed or
\* cleared since.
C2_ContainsIffLive ==
    \A x \in Values : contains(Self, x) <=> x \in live

\* C2 happens: contains has just returned false for a value that was inserted
\* and then removed, on a grown table that still holds larger values.
C2_Witness ==
    /\ call.op = "contains" /\ ~call.ret
    /\ call.arg < Top(live)
    /\ capacity(Self) > InitialCapacity

\* C3: insert(x) of a value that is present returns false and leaves the
\* bucket array (its length and every bucket) and size as they were.
C3_DuplicateInsertChangesNothing ==
    [][ (call'.op = "insert" /\ call'.arg \in live) =>
            /\ ~call'.ret
            /\ buckets' = buckets
            /\ size' = size ]_vars

\* C4: where x is absent, insert(x); insert(x) return true and then false,
\* and len() after both is one more than before the first.
C4_InsertTwice ==
    \A x \in Values \ live :
        LET first  == insert(Self, x)
            second == insert(first.t, x)
        IN  /\ first.ret
            /\ ~second.ret
            /\ len(second.t) = len(Self) + 1

\* C4 happens: the second of two insert(x) has just returned false, and it is
\* the call that grew the table.
C4_Witness ==
    /\ call.op = "insert" /\ call.twice /\ ~call.ret
    /\ capacity(Self) = 2 * InitialCapacity
    /\ 4 * len(Self) = 3 * InitialCapacity

\* C5: remove(x) of a value that is present returns true, takes one off
\* len(), and leaves contains(x) false.
C5_RemovePresent ==
    \A x \in live :
        LET r == remove(Self, x)
        IN  /\ r.ret
            /\ len(r.t) = len(Self) - 1
            /\ ~contains(r.t, x)

\* C5 happens: remove has just returned true and taken its value out of a
\* bucket that holds other values, on a grown table.
C5_Witness ==
    /\ call.op = "remove" /\ call.ret
    /\ capacity(Self) > InitialCapacity
    /\ Len(buckets[hash(Self, call.arg)]) > 0

\* C6: remove(x) of a value that is absent returns false and leaves len(),
\* capacity() and every bucket as they were; size is never below 0.
C6_RemoveAbsent ==
    /\ \A x \in Values \ live : remove(Self, x) = [t |-> Self, ret |-> FALSE]
    /\ size >= 0

\* C6 happens: the second of two remove(x) has just returned false.
C6_Witness ==
    /\ call.op = "remove" /\ call.twice /\ ~call.ret
    /\ len(Self) > 0

\* C7: after clear(), len() is 0, is_empty() is true, every bucket is empty,
\* contains is false for every value, and capacity() is what it was.
C7_Clear ==
    LET t == clear(Self)
    IN  /\ len(t) = 0
        /\ is_empty(t)
        /\ \A b \in DOMAIN t.buckets : t.buckets[b] = <<>>
        /\ \A x \in Values : ~contains(t, x)
        /\ capacity(t) = capacity(Self)

\* C7 happens: clear has just been called on a table that had grown twice.
C7_Witness ==
    /\ call.op = "clear"
    /\ capacity(Self) = 4 * InitialCapacity
    /\ is_empty(Self)

\* C8: in every step capacity() stays or doubles, and it doubles only in an
\* insert that started with (size + 1) * 4 > capacity * 3.
C8_CapacityOnlyDoubles ==
    [][ \/ capacity(Self)' = capacity(Self)
        \/ /\ capacity(Self)' = 2 * capacity(Self)
           /\ call'.op = "insert"
           /\ (size + 1) * 4 > capacity(Self) * 3 ]_vars

\* C8 happens: the table has doubled twice, and a remove has just been made.
C8_Witness ==
    /\ capacity(Self) = 4 * InitialCapacity
    /\ call.op = "remove" /\ call.ret

\* C9: an insert that grows the table keeps every value stored before it,
\* stores no value twice, and makes len() one more when the value is new; the table of
\* test_resize has capacity() > 16, len() 20 and contains 0..19.
C9_ResizeKeepsMembers ==
    /\ \A x \in Values :
          (size + 1) * 4 > capacity(Self) * 3 =>
              LET r == insert(Self, x)
              IN  /\ capacity(r.t) > capacity(Self)
                  /\ \A y \in live : contains(r.t, y)
                  /\ Held(r.t, 0) = Cardinality(Stored(r.t))
                  /\ x \notin live => len(r.t) = len(Self) + 1
    /\ capacity(TestResize) > InitialCapacity
    /\ len(TestResize) = 20
    /\ \A i \in 0..19 : contains(TestResize, i)

\* C9 happens: the table the client has built is the one of test_resize.
C9_Witness ==
    /\ call.op = "insert" /\ call.ret
    /\ live = 0..19
    /\ Self = TestResize

\* C10: when a traversal of iter() ends, it has yielded every stored value
\* once and nothing else, len() items in all.
C10_IterYieldsEachOnce ==
    (call.op = "next" /\ ~call.ret) =>
        /\ \A x \in Values : Count(out, x) = IF x \in live THEN 1 ELSE 0
        /\ \A i \in 1..Len(out) : out[i] \in Values
        /\ Len(out) = len(Self)

\* C10 happens: a traversal has ended on a grown table from which a value
\* was removed.
C10_Witness ==
    /\ call.op = "next" /\ ~call.ret
    /\ capacity(Self) > InitialCapacity
    /\ Len(out) > InitialCapacity
    /\ Cardinality(live) <= Top(live)

\* C11: a clone has the elements, size and capacity of its source, and a
\* later insert, remove or clear on one of the two leaves the buckets, size
\* and capacity of the other as they were: contains on each answers for the
\* values given to that table only.
C11_CloneIsIndependent ==
    /\ [](copy.made =>
            /\ call.op = "clone" =>
                  /\ copy.t.buckets = buckets
                  /\ len(copy.t) = len(Self)
                  /\ capacity(copy.t) = capacity(Self)
            /\ \A x \in Values :
                  /\ contains(Self, x) <=> x \in live
                  /\ contains(copy.t, x) <=> x \in copy.live)
    /\ [][ (copy.made /\ copy'.made) =>
              /\ call'.op \in {"insert", "remove", "clear"} => copy'.t = copy.t
              /\ call'.op \in {"copy.insert", "copy.remove", "copy.clear"} =>
                    (buckets' = buckets /\ size' = size) ]_vars

\* C11 happens: an insert into the clone alone has just grown the clone, and
\* the source does not contain the value.
C11_Witness ==
    /\ call.op = "copy.insert" /\ call.ret
    /\ contains(copy.t, call.arg)
    /\ ~contains(Self, call.arg)
    /\ capacity(copy.t) > capacity(Self)

RECURSIVE IsPowerOfTwo(_)
IsPowerOfTwo(n) == n = 1 \/ (n > 1 /\ n % 2 = 0 /\ IsPowerOfTwo(n \div 2))

\* C12: every stored element sits in the bucket at index hash(e) mod the
\* current capacity, and nowhere else: no bucket holds a value twice and no
\* value is in two buckets.
C12_OneBucketPerElement ==
    /\ \A b \in DOMAIN buckets :
          \A i \in 1..Len(buckets[b]) :
              /\ hash(Self, buckets[b][i]) = b
              /\ \A j \in 1..Len(buckets[b]) : buckets[b][j] = buckets[b][i] => j = i
    /\ Held(Self, 0) = Cardinality(Stored(Self))

\* C12 happens: the insert of a new value has just grown the table to 64
\* buckets, and a bucket holds two values.
C12_Witness ==
    /\ call.op = "insert" /\ call.ret
    /\ capacity(Self) = 4 * InitialCapacity
    /\ 4 * (len(Self) - 1) = 3 * 2 * InitialCapacity
    /\ \E b \in DOMAIN buckets : Len(buckets[b]) >= 2

\* C13: size is the sum of the lengths of all buckets.
C13_SizeIsBucketTotal ==
    size = Held(Self, 0)

\* C13 happens: a remove has just taken a value out of a table of 64 buckets
\* that still holds values.
C13_Witness ==
    /\ call.op = "remove" /\ call.ret
    /\ capacity(Self) = 4 * InitialCapacity
    /\ Held(Self, 0) > 0

\* C14: capacity() is a power of two and at least 16; new() and default()
\* give capacity 16 and size 0.
C14_CapacityPowerOfTwo ==
    /\ IsPowerOfTwo(capacity(Self))
    /\ capacity(Self) >= 16
    /\ capacity(new) = 16 /\ len(new) = 0
    /\ capacity(default) = 16 /\ len(default) = 0
    /\ call.op = "new" => (capacity(Self) = 16 /\ len(Self) = 0)

\* C14 happens: a duplicate insert has just grown the table to 64 buckets.
C14_Witness ==
    /\ call.op = "insert" /\ ~call.ret
    /\ capacity(Self) = 64
    /\ len(Self) = 24

\* The tables after the first 12 and the first 13 inserts of test_resize.
TestTwelve == from_iter([i \in 1..12 |-> i - 1])

TestThirteen == from_iter([i \in 1..13 |-> i - 1])

\* C15: insert(x) of an absent x doubles the capacity when
\* (size + 1) * 4 > capacity * 3 held as it was called and leaves it alone
\* otherwise, and x is then the last item of the bucket at hash(x) mod that
\* capacity.  The 12th distinct insert into a new table leaves capacity 16,
\* the 13th makes it 32.
C15_InsertGrowsThenAppends ==
    /\ \A x \in Values \ live :
          LET r   == insert(Self, x)
              cap == IF (size + 1) * 4 > capacity(Self) * 3
                     THEN 2 * capacity(Self)
                     ELSE capacity(Self)
              bucket == r.t.buckets[finish(x) % cap]
          IN  /\ r.ret
              /\ capacity(r.t) = cap
              /\ Len(bucket) > 0
              /\ bucket[Len(bucket)] = x
    /\ capacity(TestTwelve) = 16 /\ len(TestTwelve) = 12
    /\ capacity(TestThirteen) = 32 /\ len(TestThirteen) = 13

\* C15 happens: the 13th distinct insert has just grown the table to 32
\* buckets, and its value is behind another one in its bucket.
C15_Witness ==
    /\ call.op = "insert" /\ call.ret
    /\ len(Self) = 13 /\ capacity(Self) = 32
    /\ LET bucket == buckets[hash(Self, call.arg)]
       IN  Len(bucket) >= 2 /\ bucket[Len(bucket)] = call.arg

\* C17: size * 4 <= capacity * 3 in every reachable state, and after every
\* insert into it: one doubling is always enough.
C17_LoadFactorBound ==
    /\ size * 4 <= capacity(Self) * 3
    /\ \A x \in Values :
          LET r == insert(Self, x)
          IN  /\ len(r.t) * 4 <= capacity(r.t) * 3
              /\ capacity(r.t) \in {capacity(Self), 2 * capacity(Self)}

\* C17 happens: an insert has just filled a table of 32 buckets to the bound.
C17_Witness ==
    /\ call.op = "insert" /\ call.ret
    /\ capacity(Self) = 32
    /\ len(Self) * 4 = capacity(Self) * 3

\* C18: insert(x) and remove(x) leave contains(y) as it was for every y
\* other than x.
C18_OthersKeepMembership ==
    LET before == {y \in Values : contains(Self, y)}
    IN  \A x \in Values :
            LET ins == insert(Self, x).t
                rem == remove(Self, x).t
            IN  /\ {y \in Values : contains(ins, y)} \ {x} = before \ {x}
                /\ {y \in Values : contains(rem, y)} \ {x} = before \ {x}

\* C18 happens: a remove has just taken the first value out of a bucket of a
\* grown table, and the value that was behind it is still found.
C18_Witness ==
    /\ call.op = "remove" /\ call.ret
    /\ capacity(Self) = 32
    /\ \E y \in live :
          /\ y > call.arg
          /\ hash(Self, y) = hash(Self, call.arg)
          /\ contains(Self, y)

\* C16: iter() yields the buckets in ascending index, each in the order of
\* its Vec; and that order is the order of insertion: an insert puts its
\* value behind the values already in the bucket, and two values that share
\* a bucket after any step and were both stored before it shared a bucket
\* before it, in the same order (a growth and a remove of another value keep
\* the order).
C16_IterInInsertionOrder ==
    /\ [](cursor # NoIter =>
            LET items == Items(Self, 0)
            IN  /\ Len(out) <= Len(items)
                /\ \A i \in 1..Len(out) : out[i] = items[i]
                /\ (call.op = "next" /\ ~call.ret) => out = items)
    /\ [][ \A b \in DOMAIN buckets' :
              \A i, j \in 1..Len(buckets'[b]) :
                  i < j =>
                      LET v == buckets'[b][i]
                          w == buckets'[b][j]
                          old == buckets[hash(Self, v)]
                      IN  /\ v \in live
                          /\ w \in live =>
                                /\ hash(Self, w) = hash(Self, v)
                                /\ position(old, v) < position(old, w) ]_vars

\* C16 happens: a traversal of a grown table has ended, and it yielded a
\* larger value before a smaller one of the same bucket, the smaller one
\* having been removed and inserted again.
C16_Witness ==
    /\ call.op = "next" /\ ~call.ret
    /\ capacity(Self) = 32
    /\ \E i, j \in 1..Len(out) :
          /\ i < j
          /\ out[i] > out[j]
          /\ hash(Self, out[i]) = hash(Self, out[j])

\* C19: every call of next ends, after at most one turn of its loop for the
\* bucket at hand and one for each bucket not yet taken; each Some adds one
\* item and there are never more items than the table holds, so that a
\* traversal gets None after at most len() + 1 calls; it does get None; and
\* a call that follows a None returns None and leaves the iterator as it was.
C19_NextEndsAndStaysNone ==
    /\ [](cursor # NoIter =>
            /\ cursor.next <= capacity(Self)
            /\ Len(out) <= len(Self)
            /\ next(Self, cursor).turns <= capacity(Self) - cursor.next + 1
            /\ Ended => /\ next(Self, cursor).some = FALSE
                        /\ cursor.next = capacity(Self)
                        /\ Len(out) = len(Self))
    /\ [][call'.op = "next" =>
            /\ call'.ret => Len(out') = Len(out) + 1
            /\ Ended => ~call'.ret /\ cursor' = cursor /\ out' = out]_vars
    /\ ((cursor # NoIter) ~> Ended)

\* C19 happens: next has returned None after it skipped empty buckets and
\* yielded items of a grown table, and its loop took the remaining buckets
\* in the last call.
C19_Witness ==
    /\ Ended
    /\ capacity(Self) = 32
    /\ Len(out) > 0
    /\ Len(out) < InitialCapacity
    /\ buckets[capacity(Self) - 1] = <<>>
    /\ buckets[0] = <<>>

====
